---- MODULE Spec2Model ----
(***************************************************************************)
(* Model of Time_change_listener (time_change_listener.js): a supervisor   *)
(* that builds and spawns a child process, runs two asynchronous read      *)
(* loops on the child's standard output and standard error, and sends the  *)
(* commands enable, disable and exit on the child's standard input.  *)
(*                                                                         *)
(* Text is a sequence of tokens; "\n" is the newline token.  The           *)
(* JavaScript side is single-threaded: a handler of the owner and a        *)
(* continuation of a read loop each run to completion, except that         *)
(* finalize() blocks in subprocess.wait() while the child (another         *)
(* process) keeps running.  The child is opaque: it may write any line to  *)
(* either stream at any time while it runs, exit on its own, and it exits  *)
(* after it has received the exit line.                                  *)
(***************************************************************************)
EXTENDS Integers, Sequences, FiniteSets, TLC

\* ---- bounds of the model ------------------------------------------------
MaxLines == 2      \* lines the child writes, both streams together
MaxCalls == 2      \* enable(), disable() and finalize() calls of the owner
MaxFail == 1       \* failed reads on the error stream
MaxEof == 1        \* invocations of the change callback at end of stream

\* ---- text ---------------------------------------------------------------
NL == "\n"
\* the content of an output line is never looked at (#listen_input does not
\* fetch the result of the read), one content stands for all
OutLines == {<<"changed">>}
ErrLines == {<<>>, <<"warn">>, <<"skew">>}
BuildTexts == {<<>>, <<"syntax error">>}

EXECUTABLE_NAME == <<"auto-dark-light-time-change-listener">>

\* text t occurs in text m as a contiguous run of tokens
Contains(m, t) ==
    \E i \in 1..(Len(m) - Len(t) + 1) : SubSeq(m, i, i + Len(t) - 1) = t

NoError == [kind |-> "none", text |-> <<>>]
Error(message) == [kind |-> "Error", text |-> message]
BrokenPipe == [kind |-> "GLib.Error", text |-> <<"Broken pipe">>]
ReadFailure == [kind |-> "GLib.Error", text |-> <<"read failed">>]

VARIABLES
    phase,                 \* "new" | "constructed" | "failed": the constructor's outcome
    ctorInput,             \* what the constructor found: tools, build status, build stderr
    ctorError,             \* the error thrown by the constructor, or NoError
    compilation,           \* "none" | "exited": the make subprocess
    subprocess,            \* "none" | "running" | "exited": the child (#subprocess)
    callback_when_change,  \* "owner" | "noop" (#callback_when_change)
    end_listen,            \* #end_listen
    listen_input,          \* "none" | "reading" | "done": position of #listen_input
    listen_error,          \* "none" | "reading" | "done": position of #listen_error
    input,                 \* lines written by the child to stdout, not yet read (#input)
    input_error,           \* lines written by the child to stderr, not yet read (#input_error)
    output,                \* tokens received by the child on its stdin (#output)
    ownerPc,               \* "idle" | "waiting": the owner is blocked in subprocess.wait()
    waits,                 \* completed subprocess.wait() calls
    \* observation of the run
    outRead,               \* lines consumed by #listen_input, in order
    errRead,               \* lines consumed by #listen_error, in order
    changeLog,             \* invocations of the owner's change callback: the read outcome that caused each
    errLog,                \* invocations of the error callback: the argument of each
    callLog,               \* owner calls after construction: operation, child state, exception
    fails,                 \* failed reads so far
    children,              \* child processes spawned so far
    loops,                 \* read loops started so far
    pending,               \* outstanding read_line_async calls on each stream
    seen                   \* orders of events observed so far: "change after error" (the change
                           \* callback ran for a line after the error callback had run),
                           \* "error after finalize" (the error callback ran after finalize() ended)

vars == <<phase, ctorInput, ctorError, compilation, subprocess,
          callback_when_change, end_listen, listen_input, listen_error,
          input, input_error, output, ownerPc, waits,
          outRead, errRead, changeLog, errLog, callLog, fails,
          children, loops, pending, seen>>

supervisorVars == <<callback_when_change, end_listen, ownerPc, waits, callLog>>
childVars == <<subprocess, input, input_error, output>>
loopVars == <<listen_input, listen_error, outRead, errRead, changeLog, errLog, fails,
              children, loops, pending, seen>>
ctorVars == <<phase, ctorInput, ctorError, compilation>>

NoInput == [make |-> FALSE, gcc |-> FALSE, buildOk |-> FALSE, stderr |-> <<>>]

Init ==
    /\ phase = "new"
    /\ ctorInput = NoInput
    /\ ctorError = NoError
    /\ compilation = "none"
    /\ subprocess = "none"
    /\ callback_when_change = "owner"
    /\ end_listen = FALSE
    /\ listen_input = "none"
    /\ listen_error = "none"
    /\ input = <<>>
    /\ input_error = <<>>
    /\ output = <<>>
    /\ ownerPc = "idle"
    /\ waits = 0
    /\ outRead = <<>>
    /\ errRead = <<>>
    /\ changeLog = <<>>
    /\ errLog = <<>>
    /\ callLog = <<>>
    /\ fails = 0
    /\ children = 0
    /\ loops = 0
    /\ pending = [out |-> 0, err |-> 0]
    /\ seen = {}

\* ---- constructor --------------------------------------------------------

\* the dependency test of the constructor
MissingDependencies_OnlyBoth(make, gcc) == ~(make \/ gcc)
MissingDependencies(make, gcc) == ~(make /\ gcc)

MissingDependenciesMessage ==
    <<"Missing dependencies make and gcc.", "Install them">>

\* the message of the error rethrown by the catch block around the build
CompilationFailedMessage_NoCause(message) ==
    <<"Compilation of">> \o EXECUTABLE_NAME \o <<"failed", NL, NL>>
CompilationFailedMessage(message) ==
    <<"Compilation of">> \o EXECUTABLE_NAME \o <<"failed", NL, NL>> \o message

\* calling an async function runs its body up to its first await: the
\* loop exists and waits for its first read
StartLoop_Deferred == "none"
StartLoop == "reading"

\* read_line_async: one more read is outstanding on the stream
IssueRead_Twice(outstanding) == outstanding + 2
IssueRead(outstanding) == outstanding + 1

Constructor ==
    /\ phase = "new"
    /\ \E make \in BOOLEAN, gcc \in BOOLEAN, buildOk \in BOOLEAN, stderr \in BuildTexts :
        \* the text a build writes is looked at only when the build fails
        /\ (MissingDependencies(make, gcc) \/ buildOk) => stderr = <<>>
        /\ ctorInput' = [make |-> make, gcc |-> gcc, buildOk |-> buildOk, stderr |-> stderr]
        /\ IF MissingDependencies(make, gcc)
           THEN /\ phase' = "failed"
                /\ ctorError' = Error(MissingDependenciesMessage)
                /\ UNCHANGED <<compilation, subprocess, listen_input, listen_error,
                               children, loops, pending>>
           ELSE IF ~buildOk
           THEN /\ compilation' = "exited"
                /\ phase' = "failed"
                /\ ctorError' = Error(CompilationFailedMessage(stderr))
                /\ UNCHANGED <<subprocess, listen_input, listen_error,
                               children, loops, pending>>
           ELSE /\ compilation' = "exited"
                /\ phase' = "constructed"
                /\ ctorError' = NoError
                /\ subprocess' = "running"
                /\ children' = children + 1
                /\ listen_input' = StartLoop
                /\ listen_error' = StartLoop
                /\ loops' = loops + 2
                /\ pending' = [out |-> IssueRead(pending.out),
                               err |-> IssueRead(pending.err)]
    /\ UNCHANGED <<supervisorVars, input, input_error, output,
                   outRead, errRead, changeLog, errLog, fails, seen>>

\* ---- the child process (opaque; it follows the stdio protocol) ----------

\* the lines of a text: the runs of tokens that a newline terminates
RECURSIVE CompleteLines(_)
CompleteLines(text) ==
    IF \A i \in 1..Len(text) : text[i] # NL THEN <<>>
    ELSE LET n == CHOOSE i \in 1..Len(text) :
                      text[i] = NL /\ \A j \in 1..(i - 1) : text[j] # NL
         IN <<SubSeq(text, 1, n - 1)>> \o CompleteLines(SubSeq(text, n + 1, Len(text)))

ExitReceived == \E i \in 1..Len(CompleteLines(output)) : CompleteLines(output)[i] = <<"exit">>

LinesWritten == Len(outRead) + Len(input) + Len(errRead) + Len(input_error)

ChildWriteOutput ==
    /\ subprocess = "running"
    /\ LinesWritten < MaxLines
    /\ \E line \in OutLines : input' = Append(input, line)
    /\ UNCHANGED <<ctorVars, supervisorVars, loopVars, subprocess, input_error, output>>

ChildWriteError ==
    /\ subprocess = "running"
    /\ LinesWritten < MaxLines
    /\ \E line \in ErrLines : input_error' = Append(input_error, line)
    /\ UNCHANGED <<ctorVars, supervisorVars, loopVars, subprocess, input, output>>

\* the child exits although nobody asked it to
ChildExitsOnItsOwn ==
    /\ subprocess = "running"
    /\ ~ExitReceived
    /\ subprocess' = "exited"
    /\ UNCHANGED <<ctorVars, supervisorVars, loopVars, input, input_error, output>>

\* the child exits because it has read the exit line
ChildExitsOnCommand ==
    /\ subprocess = "running"
    /\ ExitReceived
    /\ subprocess' = "exited"
    /\ UNCHANGED <<ctorVars, supervisorVars, loopVars, input, input_error, output>>

\* ---- #listen_input ------------------------------------------------------

\* this.#callback_when_change(): the field is read at each invocation
InvokeChange_Captured(callback, log, cause) == Append(log, cause)
InvokeChange_Skipped(callback, log, cause) == log
InvokeChange(callback, log, cause) ==
    IF callback = "owner" THEN Append(log, cause) ELSE log

\* the condition of a do-while loop: the position after one iteration
LoopCondition_Ignored(stop) == "reading"
LoopCondition_Inverted(stop) == IF stop THEN "reading" ELSE "done"
LoopCondition(stop) == IF stop THEN "done" ELSE "reading"

\* the reads outstanding after one iteration: the read that was awaited has
\* completed, and the loop issues the next one if it goes on
NextRead(outstanding, stop) ==
    IF LoopCondition(stop) = "reading"
    THEN IssueRead(outstanding - 1)
    ELSE outstanding - 1

\* One iteration: the pending read_line_async completes, with a line or with
\* end of stream, and the loop body runs on.  The completion callback is
\* resolve itself: read_line_finish is not called and the outcome of the
\* read is not looked at.
ListenInputStep ==
    /\ listen_input = "reading"
    /\ ownerPc = "idle"
    /\ \E outcome \in {"line", "eof"} :
        /\ (outcome = "eof" /\ callback_when_change = "owner") =>
               Len(changeLog) - Len(outRead) < MaxEof
        /\ outcome = "line" => input # <<>>
        /\ outcome = "eof" => input = <<>> /\ subprocess = "exited"
        /\ IF outcome = "line"
           THEN /\ input' = Tail(input)
                /\ outRead' = Append(outRead, Head(input))
           ELSE UNCHANGED <<input, outRead>>
        /\ changeLog' = InvokeChange(callback_when_change, changeLog,
                            [outcome |-> outcome,
                             line |-> IF outcome = "line" THEN Head(input) ELSE <<>>])
    /\ listen_input' = LoopCondition(end_listen)
    /\ pending' = [pending EXCEPT !.out = NextRead(@, end_listen)]
    /\ UNCHANGED <<ctorVars, supervisorVars, subprocess, input_error, output,
                   listen_error, errRead, errLog, fails, children, loops>>
    /\ seen' = IF changeLog' # changeLog /\ outRead' # outRead /\ errLog # <<>>
               THEN seen \cup {"change after error"}
               ELSE seen

\* ---- #listen_error ------------------------------------------------------

TheSubprocessWrote ==
    <<"the subprocess">> \o EXECUTABLE_NAME \o <<"wrote on its error output", ":">>

\* the template literal of the message: the fixed words, then the line as
\* the text the child wrote
ErrorMessage(line) == [kind |-> "message", text |-> TheSubprocessWrote \o line]

\* the test and the call after the await: result is [line, length], a null
\* line being result.null
ErrorDispatch_NoLengthTest(log, result) ==
    IF ~result.null THEN Append(log, ErrorMessage(result.line)) ELSE log
ErrorDispatch_NoLine(log, result) ==
    IF ~result.null /\ result.length > 0
    THEN Append(log, ErrorMessage(<<>>))
    ELSE log
ErrorDispatch(log, result) ==
    IF ~result.null /\ result.length > 0
    THEN Append(log, ErrorMessage(result.line))
    ELSE log

\* read_line_finish: a line without its newline and its length, [null, 0]
\* at end of stream
ReadLineFinish(stream) ==
    IF stream # <<>>
    THEN [null |-> FALSE, line |-> Head(stream), length |-> Len(Head(stream))]
    ELSE [null |-> TRUE, line |-> <<>>, length |-> 0]

ListenErrorStep ==
    /\ listen_error = "reading"
    /\ ownerPc = "idle"
    /\ \E outcome \in {"line", "eof", "fail"} :
        /\ outcome = "line" => input_error # <<>>
        /\ outcome = "eof" => input_error = <<>> /\ subprocess = "exited"
        /\ outcome = "fail" => fails < MaxFail
        /\ IF outcome = "line"
           THEN /\ input_error' = Tail(input_error)
                /\ errRead' = Append(errRead, Head(input_error))
           ELSE UNCHANGED <<input_error, errRead>>
        /\ fails' = IF outcome = "fail" THEN fails + 1 ELSE fails
        /\ errLog' = IF outcome = "fail"
                     THEN ErrorDispatch(Append(errLog, ReadFailure),
                                        [null |-> TRUE, line |-> <<>>, length |-> 0])
                     ELSE ErrorDispatch(errLog, ReadLineFinish(input_error))
    /\ listen_error' = LoopCondition(end_listen)
    /\ pending' = [pending EXCEPT !.err = NextRead(@, end_listen)]
    /\ UNCHANGED <<ctorVars, supervisorVars, subprocess, input, output,
                   listen_input, outRead, changeLog, children, loops>>
    /\ seen' = IF errLog' # errLog /\ end_listen
               THEN seen \cup {"error after finalize"}
               ELSE seen

\* ---- enable(), disable(), finalize() ------------------------------------

\* the text of a command as it is written: 'enable\n', 'disable\n', 'exit\n'
CommandLine_NoNewline(command) == <<command>>
CommandLine(command) == <<command, NL>>

\* this.#output.write(text, null): the few bytes of a command reach the pipe
\* in one piece while the child holds its reading end; the write fails with
\* a broken pipe once the child has exited
WriteSucceeds == subprocess = "running"

Command(command) ==
    /\ phase = "constructed"
    /\ ownerPc = "idle"
    /\ Len(callLog) < MaxCalls
    /\ IF WriteSucceeds
       THEN /\ output' = output \o CommandLine(command)
            /\ callLog' = Append(callLog, [op |-> command, running |-> TRUE,
                                           thrown |-> NoError])
       ELSE /\ output' = output
            /\ callLog' = Append(callLog, [op |-> command, running |-> FALSE,
                                           thrown |-> BrokenPipe])
    /\ UNCHANGED <<ctorVars, loopVars, subprocess, input, input_error,
                   callback_when_change, end_listen, ownerPc, waits>>

Enable == Command("enable")

Disable == Command("disable")

\* this.#end_listen = true
EndListenSet_Toggled(flag) == ~flag
EndListenSet(flag) == TRUE

\* finalize() up to the point where it blocks in subprocess.wait(), or up
\* to the exception of the write, which skips the wait
Finalize ==
    /\ phase = "constructed"
    /\ ownerPc = "idle"
    /\ Len(callLog) < MaxCalls
    /\ callback_when_change' = "noop"
    /\ end_listen' = EndListenSet(end_listen)
    /\ IF WriteSucceeds
       THEN /\ output' = output \o CommandLine("exit")
            /\ callLog' = Append(callLog, [op |-> "finalize", running |-> TRUE,
                                           thrown |-> NoError])
            /\ ownerPc' = "waiting"
       ELSE /\ output' = output
            /\ callLog' = Append(callLog, [op |-> "finalize", running |-> FALSE,
                                           thrown |-> BrokenPipe])
            /\ ownerPc' = "idle"
    /\ UNCHANGED <<ctorVars, loopVars, subprocess, input, input_error, waits>>

\* subprocess.wait(null) returns: the child has exited and is reaped
FinalizeWaitReturns ==
    /\ ownerPc = "waiting"
    /\ subprocess = "exited"
    /\ ownerPc' = "idle"
    /\ waits' = waits + 1
    /\ UNCHANGED <<ctorVars, loopVars, childVars, callback_when_change,
                   end_listen, callLog>>

Next ==
    \/ Constructor
    \/ ChildWriteOutput
    \/ ChildWriteError
    \/ ChildExitsOnItsOwn
    \/ ChildExitsOnCommand
    \/ ListenInputStep
    \/ ListenErrorStep
    \/ Enable
    \/ Disable
    \/ Finalize
    \/ FinalizeWaitReturns

Spec == Init /\ [][Next]_vars

\* ---- observations shared by the properties ------------------------------

IsLineMessage(entry) == entry.kind = "message"
IsNonEmpty(line) == Len(line) > 0
IsFinalize(i) == callLog[i].op = "finalize"

\* finalize() has been called and is no longer running
FinalizeEnded == ownerPc = "idle" /\ \E i \in 1..Len(callLog) : IsFinalize(i)

OutWritten == outRead \o input
ErrWritten == errRead \o input_error

\* ---- C1 -----------------------------------------------------------------

\* C1: the change callback is invoked once per line the child wrote to its
\* standard output, in the order of the lines, and never for a read that
\* completes without a line.
C1_OnePerLine ==
    /\ Len(changeLog) <= Len(OutWritten)
    /\ \A i \in 1..Len(changeLog) :
        /\ changeLog[i].outcome = "line"
        /\ i <= Len(OutWritten) => changeLog[i].line = OutWritten[i]

\* ---- C2 -----------------------------------------------------------------

\* C2 as claimed: every non-empty line written to standard error, at any
\* point of the run, has been delivered once and in order by the time
\* finalize() has returned and the error loop has ended (in a run where no
\* read failed).
C2_EveryLineWritten ==
    (listen_error = "done" /\ waits >= 1 /\ fails = 0) =>
        LET messages == SelectSeq(errLog, IsLineMessage)
            lines == SelectSeq(ErrWritten, IsNonEmpty)
        IN /\ Len(messages) = Len(lines)
           /\ \A i \in 1..Len(lines) : Contains(messages[i].text, lines[i])

\* C2 (amended): the non-empty lines the error reader has read from standard
\* error are exactly the lines the error callback was invoked for: one
\* invocation per line, in the order of the lines, each with a message that
\* contains the line verbatim.  Lines left unread when the loop ends are not
\* delivered.
C2_EveryLineRead ==
    LET messages == SelectSeq(errLog, IsLineMessage)
        lines == SelectSeq(errRead, IsNonEmpty)
    IN /\ Len(messages) = Len(lines)
       /\ \A i \in 1..Len(lines) : Contains(messages[i].text, lines[i])

C2_Witness ==
    LET messages == SelectSeq(errLog, IsLineMessage)
    IN /\ Len(messages) = 2
       /\ messages[1] # messages[2]
       /\ errRead = <<<<"warn">>, <<"skew">>>>

\* ---- C3 -----------------------------------------------------------------

\* C3: once finalize() has ended, no step invokes the owner's change
\* callback, whatever is still buffered on the child's standard output.
C3_SilentAfterFinalize == [][FinalizeEnded => changeLog' = changeLog]_vars

\* a line was read after finalize() returned, another one is still buffered
C3_Witness ==
    /\ waits >= 1
    /\ listen_input = "done"
    /\ Len(outRead) = 1
    /\ input # <<>>
    /\ changeLog = <<>>

\* ---- C4 -----------------------------------------------------------------

ExitLines ==
    Cardinality({i \in 1..Len(CompleteLines(output)) : CompleteLines(output)[i] = <<"exit">>})
FinalizeCalls == Cardinality({i \in 1..Len(callLog) : IsFinalize(i)})

\* C4: every finalize() call has written one exit line and has ended only
\* after the child was waited for.
C4_ExitAndWait ==
    ownerPc = "idle" => (ExitLines = FinalizeCalls /\ waits = FinalizeCalls)

\* ---- C5 -----------------------------------------------------------------

\* C5: a finalize() call made after an earlier one has returned raises no
\* failure, and the child is waited for once.
C5_SecondFinalizeSafe ==
    /\ waits <= 1
    /\ \A i, j \in 1..Len(callLog) :
        (i < j /\ IsFinalize(i) /\ IsFinalize(j) /\ callLog[i].thrown = NoError)
            => callLog[j].thrown = NoError

\* ---- C6 -----------------------------------------------------------------

\* C6: a failed write of enable() or disable() is handed to the error
\* callback and is not raised out of the call.
C6_WriteFailureToCallback ==
    \A i \in 1..Len(callLog) :
        (callLog[i].op \in {"enable", "disable"} /\ ~callLog[i].running) =>
            /\ callLog[i].thrown = NoError
            /\ \E k \in 1..Len(errLog) : errLog[k] = BrokenPipe

\* ---- C7 -----------------------------------------------------------------

WrittenBy(op) == IF op = "finalize" THEN <<"exit">> ELSE <<op>>
MadeWhileRunning(call) == call.running

\* C7: the child's standard input holds one complete newline-terminated
\* line per call made while the child was running, in call order, and
\* nothing else.
C7_OneLinePerCall ==
    LET calls == SelectSeq(callLog, MadeWhileRunning)
        lines == CompleteLines(output)
    IN /\ output # <<>> => output[Len(output)] = NL
       /\ Len(lines) = Len(calls)
       /\ \A i \in 1..Len(calls) : lines[i] = WrittenBy(calls[i].op)

C7_Witness ==
    /\ CompleteLines(output) = <<<<"enable">>, <<"disable">>>>
    /\ Len(callLog) = 2
    /\ subprocess = "running"

\* ---- C8 -----------------------------------------------------------------

\* C8: a step in which the error reader reads an empty line leaves the
\* error callback uninvoked.
C8_EmptyLineSilent ==
    [][(Len(errRead') > Len(errRead) /\ errRead'[Len(errRead')] = <<>>)
          => errLog' = errLog]_vars

\* an empty line was read after a diagnostic that was delivered
C8_Witness ==
    /\ errRead = <<<<"warn">>, <<>>>>
    /\ Len(errLog) = 1

\* ---- C9 -----------------------------------------------------------------

BuildFailed == phase = "failed" /\ ctorInput.make /\ ctorInput.gcc /\ ~ctorInput.buildOk

\* C9: when the build step fails, the constructor throws an error whose
\* message contains the build's error text; no child, no read loop, no
\* callback.
C9_BuildFailure ==
    BuildFailed =>
        /\ ctorError.kind = "Error"
        /\ Contains(ctorError.text, ctorInput.stderr)
        /\ subprocess = "none"
        /\ listen_input = "none" /\ listen_error = "none"
        /\ changeLog = <<>> /\ errLog = <<>>

C9_Witness == BuildFailed /\ ctorInput.stderr = <<"syntax error">>

\* ---- C10 ----------------------------------------------------------------

ToolMissing == phase # "new" /\ (~ctorInput.make \/ ~ctorInput.gcc)

\* C10: when make or gcc is absent, the constructor throws the missing
\* dependency error and has started neither the build nor the child nor a
\* read loop.
C10_MissingDependency ==
    ToolMissing =>
        /\ phase = "failed"
        /\ ctorError = Error(MissingDependenciesMessage)
        /\ compilation = "none"
        /\ subprocess = "none"
        /\ listen_input = "none" /\ listen_error = "none"

C10_Witness == ToolMissing /\ ctorInput.make /\ ~ctorInput.gcc

\* ---- C11 ----------------------------------------------------------------

\* C11: once a read of the notification reader has completed with end of
\* stream, the notification loop has terminated, finalize() called or not.
C11_EndOfStreamEndsLoop ==
    (\E i \in 1..Len(changeLog) : changeLog[i].outcome = "eof") => listen_input = "done"

\* ---- C12 ----------------------------------------------------------------

\* C12: once a read of the error reader has failed, the failure has been
\* handed to the error callback once and the error loop has terminated, stop
\* flag set or not.
C12_FailureEndsLoop ==
    fails > 0 =>
        /\ Cardinality({k \in 1..Len(errLog) : errLog[k] = ReadFailure}) = fails
        /\ listen_error = "done"

\* ---- C13 ----------------------------------------------------------------

\* The main loop dispatches the completion of a read that can complete, and
\* subprocess.wait() returns once the child has exited.
Fairness ==
    /\ WF_vars(ListenInputStep)
    /\ WF_vars(ListenErrorStep)
    /\ WF_vars(FinalizeWaitReturns)

LiveSpec == Spec /\ Fairness

BothLoopsEnded == listen_input = "done" /\ listen_error = "done"

\* C13: once finalize() has been called and the child has exited, both read
\* loops eventually terminate: the pending read of each completes and none
\* is issued again.
C13_LoopsTerminate ==
    (end_listen /\ subprocess = "exited") ~> (BothLoopsEnded /\ pending = [out |-> 0, err |-> 0])

C13_Witness ==
    /\ waits >= 1
    /\ BothLoopsEnded
    /\ pending = [out |-> 0, err |-> 0]

\* ---- C14 ----------------------------------------------------------------

\* C14: the step that sets the stop flag leaves both pending reads pending
\* and the streams untouched; with the flag set, the completion of a loop's
\* pending read ends that loop without a new read, and nothing else moves a
\* loop or issues a read.
C14_StopFlagCooperative ==
    [][/\ (~end_listen /\ end_listen') =>
             UNCHANGED <<listen_input, listen_error, pending, input, input_error,
                         outRead, errRead>>
       /\ (end_listen /\ ListenInputStep) => (listen_input' = "done" /\ pending'.out = 0)
       /\ (end_listen /\ ListenErrorStep) => (listen_error' = "done" /\ pending'.err = 0)
       /\ (end_listen /\ ~ListenInputStep) => UNCHANGED <<listen_input, pending.out>>
       /\ (end_listen /\ ~ListenErrorStep) => UNCHANGED <<listen_error, pending.err>>
      ]_vars

\* after finalize() one loop has ended, the read of the other is still pending
C14_Witness ==
    /\ end_listen
    /\ listen_input = "done" /\ pending.out = 0
    /\ listen_error = "reading" /\ pending.err = 1

\* ---- C15 ----------------------------------------------------------------

\* C15: after the error callback has run (for a diagnostic line or for a
\* failed read) and before finalize(), the notification loop still has its
\* read pending, a line it reads invokes the change callback, and enable()
\* or disable() on a running child adds its line to the child's input.
C15_ErrorsNotFatal ==
    [][(errLog # <<>> /\ ~end_listen) =>
          /\ listen_input = "reading" /\ pending.out = 1
          /\ (ListenInputStep /\ outRead' # outRead) =>
                 changeLog' = Append(changeLog, [outcome |-> "line", line |-> Head(input)])
          /\ ((Enable \/ Disable) /\ subprocess = "running") =>
                 /\ Len(CompleteLines(output')) = Len(CompleteLines(output)) + 1
                 /\ callLog'[Len(callLog')].thrown = NoError
      ]_vars

\* a line was read and notified after the error callback had run for a
\* failed read and for a diagnostic line
C15_Witness ==
    /\ "change after error" \in seen
    /\ ~end_listen
    /\ fails > 0
    /\ \E k \in 1..Len(errLog) : IsLineMessage(errLog[k])

\* ---- C16 ----------------------------------------------------------------

\* C16: the step in which the constructor succeeds leaves the child spawned
\* and running, both read loops started with one read pending each, no line
\* read and no owner callback invoked.
C16_ConstructorStartsLoops ==
    [][(phase = "new" /\ phase' = "constructed") =>
          /\ subprocess' = "running" /\ children' = 1
          /\ listen_input' = "reading" /\ listen_error' = "reading"
          /\ loops' = 2
          /\ pending' = [out |-> 1, err |-> 1]
          /\ outRead' = <<>> /\ errRead' = <<>>
          /\ changeLog' = <<>> /\ errLog' = <<>>
      ]_vars

\* the constructor has returned with both reads pending and the child has
\* not written anything yet
C16_Witness ==
    /\ phase = "constructed"
    /\ subprocess = "running"
    /\ pending = [out |-> 1, err |-> 1]
    /\ LinesWritten = 0
    /\ changeLog = <<>> /\ errLog = <<>> /\ callLog = <<>>

\* ---- C17 ----------------------------------------------------------------

\* C17: a supervisor has spawned at most one child and started at most two
\* read loops, and each stream has at most one read outstanding: exactly
\* one while its loop runs, none otherwise.
C17_OneChildTwoLoops ==
    /\ children <= 1
    /\ loops <= 2
    /\ pending.out = (IF listen_input = "reading" THEN 1 ELSE 0)
    /\ pending.err = (IF listen_error = "reading" THEN 1 ELSE 0)

\* both loops have gone through several iterations
C17_Witness ==
    /\ children = 1 /\ loops = 2
    /\ Len(outRead) >= 1 /\ Len(errRead) >= 1
    /\ ~end_listen
    /\ pending = [out |-> 1, err |-> 1]

\* ---- C18 ----------------------------------------------------------------

\* C18: the stop flag is false as long as finalize() has not been called,
\* only a finalize() step changes it, finalize() leaves it true, and once
\* true it is true in every later state.
C18_StopFlagMonotone ==
    [][/\ (FinalizeCalls = 0 => ~end_listen)
       /\ (FinalizeCalls' = 0 => ~end_listen')
       /\ (end_listen' # end_listen => Finalize)
       /\ (Finalize => end_listen')
       /\ (end_listen => end_listen')
      ]_vars

\* the flag after a second finalize() and after both loops have read it
C18_Witness ==
    /\ FinalizeCalls = 2
    /\ end_listen
    /\ BothLoopsEnded

\* ---- C19 ----------------------------------------------------------------

\* C19: once finalize() has ended, the change callback is never invoked, and
\* the error callback is invoked at most once more: only by the completion
\* of the error reader's pending read, which ends the error loop, after
\* which the loop stays ended and no callback runs.
C19_OneLastError ==
    [][FinalizeEnded =>
          /\ changeLog' = changeLog
          /\ (errLog' # errLog) =>
                 /\ ListenErrorStep
                 /\ Len(errLog') = Len(errLog) + 1
                 /\ listen_error' = "done"
          /\ (listen_error = "done") => (listen_error' = "done" /\ errLog' = errLog)
      ]_vars

\* the error callback ran after finalize() had returned, and the loop ended
C19_Witness ==
    /\ "error after finalize" \in seen
    /\ waits >= 1
    /\ listen_error = "done"
    /\ errLog # <<>>

====
